---- MODULE Spec2Model ----
(***************************************************************************)
(* State-machine model of backend/server.js: the Express application of    *)
(* the grooming-appointment backend.  The model covers the authentication  *)
(* gate (authenticateToken), POST /api/auth/login, GET and POST            *)
(* /api/appointments and PUT /api/appointments/:id/status, together with   *)
(* the appointments table they read and write.                             *)
(*                                                                         *)
(* Every handler runs synchronously up to its first await; what it awaits  *)
(* is one SQL statement.  A request is therefore modelled by an arrival    *)
(* step (header parsing, token verification, field validation, submitting  *)
(* the statement) and a statement step (the SQL statement executes         *)
(* atomically in the store and the continuation, which reads nothing but   *)
(* the statement's result, builds the HTTP response).  Statements of       *)
(* different requests interleave freely.                                   *)
(***************************************************************************)
EXTENDS Integers, Sequences, FiniteSets, Bags, TLC

VARIABLES
    now,           \* Date.now() / CURRENT_TIMESTAMP, in clock ticks
    issued,        \* tokens handed out by jwt.sign so far (known to clients)
    appointments,  \* the appointments table: rows in insertion order
    appointments_id_seq, \* last value of the SERIAL sequence of appointments.id
    inflight,      \* bag of requests whose SQL statement is submitted, not yet run
    response,      \* the HTTP response a handler has just written, if any
    lastUpdate,    \* history: per appointment id, the request of the last UPDATE
    admitted       \* number of requests that got past validation so far

vars == <<now, issued, appointments, appointments_id_seq, inflight, response,
          lastUpdate, admitted>>

---------------------------------------------------------------------------
(* Bounds of the model *)

\* Last clock tick explored.
MaxTime == 2
\* Requests that get past validation in one run (rejected requests are not
\* counted: they leave nothing behind).
MaxRequests == 4

---------------------------------------------------------------------------
(* JavaScript values of a parsed JSON body *)

Undefined == [t |-> "undefined"]
JsNull == [t |-> "null"]
JsString(s) == [t |-> "string", s |-> s]
JsNumber(n) == [t |-> "number", n |-> n]
JsObject(o) == [t |-> "object", o |-> o]
JsArray(a) == [t |-> "array", a |-> a]

\* The truthiness test behind `!x` and `a && b`.
Truthy(v) ==
    CASE v.t = "undefined" -> FALSE
      [] v.t = "null" -> FALSE
      [] v.t = "string" -> v.s # ""
      [] v.t = "number" -> v.n # 0
      [] OTHER -> TRUE

---------------------------------------------------------------------------
(* Values of the store *)

SqlNull == [sql |-> "NULL"]
SqlText(s) == [sql |-> "text", s |-> s]
SqlInt(n) == [sql |-> "int", n |-> n]
SqlJsonb(s) == [sql |-> "jsonb", json |-> s]

\* Decimal text of the small integers that occur as identifiers.
DecimalText == [n \in 0..9 |-> CASE n = 0 -> "0" [] n = 1 -> "1" [] n = 2 -> "2"
                                 [] n = 3 -> "3" [] n = 4 -> "4" [] n = 5 -> "5"
                                 [] n = 6 -> "6" [] n = 7 -> "7" [] n = 8 -> "8"
                                 [] OTHER -> "9"]

\* A query parameter as the driver sends it: undefined and null become NULL,
\* strings go as text, numbers as their decimal text.
ToParam(v) ==
    CASE v.t = "undefined" -> SqlNull
      [] v.t = "null" -> SqlNull
      [] v.t = "string" -> SqlText(v.s)
      [] v.t = "number" -> SqlText(DecimalText[v.n])
      [] OTHER -> SqlNull

\* The store's input conversion of a text parameter to INTEGER.
IsIntegerText(p) == p.sql = "text" /\ \E n \in 0..9 : DecimalText[n] = p.s
IntegerOf(p) == CHOOSE n \in 0..9 : DecimalText[n] = p.s

\* VARCHAR(n): a longer string is rejected by the store.
FitsVarchar(p, n) == p.sql = "NULL" \/ Len(p.s) <= n

---------------------------------------------------------------------------
(* Credential store and password hashing *)

\* bcrypt.hash(password, 10): a one-way image of the password.
bcryptHash(password) == [alg |-> "bcrypt", cost |-> 10, of |-> password]

\* bcrypt.compare(password, hash).
bcryptCompare(password, hash) == hash = bcryptHash(password)

\* The users table after initDatabase: the seeded administrator.  No handler
\* writes this table.
users == { [id |-> 1, email |-> "admin@toelettatura.com",
            password |-> bcryptHash("admin123"), role |-> "admin"] }

\* The services table after initDatabase: five seeded services (price in cents).
services ==
    { [id |-> 1, name |-> "Bagno e Spazzolatura", duration |-> 60, price |-> 2500],
      [id |-> 2, name |-> "Taglio Completo", duration |-> 90, price |-> 4000],
      [id |-> 3, name |-> "Taglio Unghie", duration |-> 30, price |-> 1500],
      [id |-> 4, name |-> "Pulizia Orecchie", duration |-> 20, price |-> 1000],
      [id |-> 5, name |-> "Pacchetto Completo", duration |-> 120, price |-> 6000] }

---------------------------------------------------------------------------
(* Signed tokens *)

JWT_SECRET == "fallback-secret-for-development"

\* expiresIn: '24h', in clock ticks of 12 hours.
TokenTTL == 2

NoToken == [fmt |-> "undefined"]      \* nothing at index 1 of the split header
EmptyToken == [fmt |-> "empty"]       \* the empty string
GarbageToken == [fmt |-> "garbage"]   \* a non-empty string that is no JWT

\* A mutant of jwtSign: the token is valid one tick longer.
jwtSign_LongerLife(payload, secret, t) ==
    [fmt |-> "jwt",
     payload |-> [userId |-> payload.userId, email |-> payload.email,
                  iat |-> t, exp |-> t + TokenTTL + 1],
     key |-> secret]

\* jwt.sign(payload, secret, {expiresIn}) at time t.
jwtSign(payload, secret, t) ==
    [fmt |-> "jwt",
     payload |-> [userId |-> payload.userId, email |-> payload.email,
                  iat |-> t, exp |-> t + TokenTTL],
     key |-> secret]

\* A mutant of jwtVerify: expiry is not checked (ignoreExpiration).
jwtVerify_IgnoresExpiry(token, secret, t) ==
    IF token.fmt # "jwt" THEN [err |-> "jwt malformed", user |-> Undefined]
    ELSE IF token.key # secret THEN [err |-> "invalid signature", user |-> Undefined]
    ELSE [err |-> "none", user |-> token.payload]

\* jwt.verify(token, secret) at time t: the decoded payload, or the error.
jwtVerify(token, secret, t) ==
    IF token.fmt # "jwt" THEN [err |-> "jwt malformed", user |-> Undefined]
    ELSE IF token.key # secret THEN [err |-> "invalid signature", user |-> Undefined]
    ELSE IF t >= token.payload.exp THEN [err |-> "jwt expired", user |-> Undefined]
    ELSE [err |-> "none", user |-> token.payload]

\* A request's Authorization header: absent, or its value split at spaces
\* into the scheme and the words after it.
NoHeader == [present |-> FALSE, words |-> <<>>]
Bearer(words) == [present |-> TRUE, words |-> words]

\* authHeader && authHeader.split(' ')[1]
ExtractToken(header) ==
    IF ~header.present THEN NoToken
    ELSE IF Len(header.words) = 0 THEN NoToken
    ELSE header.words[1]

\* A mutant of authenticateToken: a request without a token is let through.
authenticateToken_MissingPasses(header, t) ==
    LET token == ExtractToken(header)
        v == jwtVerify(token, JWT_SECRET, t)
    IN  IF token.fmt \in {"undefined", "empty"}
        THEN [next |-> TRUE, code |-> 0, body |-> [error |-> ""], user |-> Undefined]
        ELSE IF v.err # "none"
        THEN [next |-> FALSE, code |-> 403,
              body |-> [error |-> "Token non valido"], user |-> Undefined]
        ELSE [next |-> TRUE, code |-> 0, body |-> [error |-> ""], user |-> v.user]

\* The middleware: either it answers (401 or 403) or it calls next() with
\* req.user set.
authenticateToken(header, t) ==
    LET token == ExtractToken(header)
        v == jwtVerify(token, JWT_SECRET, t)
    IN  IF token.fmt \in {"undefined", "empty"}
        THEN [next |-> FALSE, code |-> 401,
              body |-> [error |-> "Token di accesso richiesto"], user |-> Undefined]
        ELSE IF v.err # "none"
        THEN [next |-> FALSE, code |-> 403,
              body |-> [error |-> "Token non valido"], user |-> Undefined]
        ELSE [next |-> TRUE, code |-> 0, body |-> [error |-> ""], user |-> v.user]

---------------------------------------------------------------------------
(* Requests a client can send *)

\* A token signed with a key that is not the server's, never expired.
ForgedToken(t) ==
    [fmt |-> "jwt",
     payload |-> [userId |-> 1, email |-> "admin@toelettatura.com",
                  iat |-> t, exp |-> t + TokenTTL],
     key |-> "attacker-key"]

Headers ==
    { NoHeader, Bearer(<<>>), Bearer(<<EmptyToken, GarbageToken>>),
      Bearer(<<GarbageToken>>), Bearer(<<ForgedToken(now)>>) }
    \cup { Bearer(<<tok>>) : tok \in issued }

\* Bodies of the login calls explored.
Credentials(email, password) == [email |-> email, password |-> password]
LoginCalls ==
    { Credentials(JsString("admin@toelettatura.com"), JsString("admin123")),
      Credentials(JsString("admin@toelettatura.com"), JsString("wrong")),
      Credentials(JsString("admin@toelettatura.com"), JsString("")),
      Credentials(JsString("admin@toelettatura.com"), Undefined),
      Credentials(JsString("ADMIN@toelettatura.com"), JsString("admin123")),
      Credentials(JsString(""), JsString("admin123")),
      Credentials(Undefined, JsString("admin123")),
      Credentials(Undefined, Undefined) }

---------------------------------------------------------------------------
(* Responses *)

NoResponse == [op |-> "none", code |-> 0, body |-> Undefined]
Respond(op, code, body) == [op |-> op, code |-> code, body |-> body]

\* pool.query(...) is called: the statement is on its way to the store.
Submit(r) ==
    /\ admitted < MaxRequests
    /\ admitted' = admitted + 1
    /\ inflight' = inflight (+) SetToBag({r})
\* The statement has run.
Complete(r) == inflight' = inflight (-) SetToBag({r})
Pending == BagToSet(inflight)

---------------------------------------------------------------------------
(* Initial state: the server listens and initDatabase has completed *)

Init ==
    /\ now = 0
    /\ issued = {}
    /\ appointments = <<>>
    /\ appointments_id_seq = 0
    /\ inflight = EmptyBag
    /\ response = NoResponse
    /\ lastUpdate = <<>>
    /\ admitted = 0

\* The response a handler wrote goes out to its client.  Every other step
\* waits for it, so each response is the value of `response` in exactly one
\* state: the one its handler leaves.
Idle == response = NoResponse

Flush ==
    /\ ~Idle
    /\ response' = NoResponse
    /\ UNCHANGED <<now, issued, appointments, appointments_id_seq, inflight,
                   lastUpdate, admitted>>

\* Time passes.
Tick ==
    /\ Idle
    /\ now < MaxTime
    /\ now' = now + 1
    /\ response' = NoResponse
    /\ UNCHANGED <<issued, appointments, appointments_id_seq, inflight, lastUpdate,
                   admitted>>

---------------------------------------------------------------------------
(* POST /api/auth/login *)

\* A mutant of SelectUser: the WHERE clause is missing.
SelectUser_AnyUser(email) == users

\* SELECT * FROM users WHERE email = $1
SelectUser(email) == { u \in users : SqlText(u.email) = ToParam(email) }

\* The handler's answer when it signs at time t: the presence check, the
\* SELECT's rows, bcrypt.compare, jwt.sign.
LoginOutcome(email, password, t) ==
    LET rows == SelectUser(email)
    IN  IF ~Truthy(email) \/ ~Truthy(password)
        THEN [code |-> 400, body |-> [error |-> "Email e password richiesti"]]
        ELSE IF rows = {}
        THEN [code |-> 401, body |-> [error |-> "Credenziali non valide"]]
        ELSE LET user == CHOOSE u \in rows : TRUE
             IN  IF ~bcryptCompare(password.s, user.password)
                 THEN [code |-> 401, body |-> [error |-> "Credenziali non valide"]]
                 ELSE [code |-> 200,
                       body |-> [message |-> "Login effettuato con successo",
                                 token |-> jwtSign([userId |-> user.id, email |-> user.email],
                                                   JWT_SECRET, t),
                                 user |-> [id |-> user.id, email |-> user.email,
                                           role |-> user.role]]]

\* The whole handler in one step: it reads the users table, which no handler
\* writes, and the clock at jwt.sign, so it takes effect when it signs.
Login(email, password) ==
    /\ Idle
    /\ LET out == LoginOutcome(email, password, now)
       IN  /\ response' = Respond("login", out.code, out.body)
           /\ IF out.code = 200
              THEN /\ admitted < MaxRequests
                   /\ admitted' = admitted + 1
                   /\ issued' = issued \cup {out.body.token}
              ELSE UNCHANGED <<issued, admitted>>
    /\ UNCHANGED <<now, appointments, appointments_id_seq, inflight, lastUpdate>>

---------------------------------------------------------------------------
(* The appointments table *)

\* status VARCHAR(50)
StatusMaxLen == 50

SqlDate(s) == [sql |-> "date", s |-> s]
SqlTime(s) == [sql |-> "time", s |-> s]
JsDate(s) == [t |-> "date", s |-> s]

\* JSON.stringify of a body value: undefined stays undefined, anything else
\* becomes its JSON text.
JsonText(v) ==
    CASE v.t = "null" -> "null"
      [] v.t = "string" -> "\"" \o v.s \o "\""
      [] v.t = "number" -> DecimalText[v.n]
      [] OTHER -> "{\"appointmentTime\":\"" \o v.o.appointmentTime.s \o "\"}"
JSONstringify(v) == IF v.t = "undefined" THEN Undefined ELSE JsString(JsonText(v))

\* The JSON values that occur as proposed changes.
ProposedChange == JsObject([appointmentTime |-> JsString("11:30")])
JsonValues == { JsNull, ProposedChange }

\* JSON.parse, as the driver applies it to a jsonb column.
JSONparse(text) == CHOOSE v \in JsonValues : JsonText(v) = text

\* A column value as the driver hands it to the handler.
FromSql(c) ==
    CASE c.sql = "NULL" -> JsNull
      [] c.sql = "text" -> JsString(c.s)
      [] c.sql = "int" -> JsNumber(c.n)
      [] c.sql = "date" -> JsDate(c.s)
      [] c.sql = "time" -> JsString(c.s)
      [] OTHER -> JSONparse(c.json)

\* result.rows[i] of a statement that returns appointments rows.
RowToJs(row) ==
    [id |-> JsNumber(row.id),
     client_name |-> FromSql(row.client_name),
     client_phone |-> FromSql(row.client_phone),
     client_email |-> FromSql(row.client_email),
     pet_name |-> FromSql(row.pet_name),
     pet_breed |-> FromSql(row.pet_breed),
     service_id |-> FromSql(row.service_id),
     appointment_date |-> FromSql(row.appointment_date),
     appointment_time |-> FromSql(row.appointment_time),
     notes |-> FromSql(row.notes),
     status |-> FromSql(row.status),
     rejection_reason |-> FromSql(row.rejection_reason),
     proposed_changes |-> FromSql(row.proposed_changes),
     created_at |-> row.created_at,
     updated_at |-> row.updated_at]

Ids(table) == { table[i].id : i \in 1..Len(table) }
RowOf(table, id) == table[CHOOSE i \in 1..Len(table) : table[i].id = id]

\* A mutant of DefaultStatus: new rows start out confirmed.
DefaultStatus_Confirmed == SqlText("confirmed")

\* status VARCHAR(50) DEFAULT 'pending'
DefaultStatus == SqlText("pending")

\* INSERT INTO appointments (client_name, ..., notes) VALUES ($1..$9) RETURNING *
\* at CURRENT_TIMESTAMP t, with the sequence at seq.
InsertAppointment(table, seq, p, t) ==
    LET service == ToParam(p.serviceId)
        id == seq + 1
        row == [id |-> id,
                client_name |-> ToParam(p.clientName),
                client_phone |-> ToParam(p.clientPhone),
                client_email |-> ToParam(p.clientEmail),
                pet_name |-> ToParam(p.petName),
                pet_breed |-> ToParam(p.petBreed),
                service_id |-> IF service = SqlNull THEN SqlNull
                               ELSE SqlInt(IntegerOf(service)),
                appointment_date |-> IF ToParam(p.appointmentDate) = SqlNull THEN SqlNull
                                     ELSE SqlDate(ToParam(p.appointmentDate).s),
                appointment_time |-> IF ToParam(p.appointmentTime) = SqlNull THEN SqlNull
                                     ELSE SqlTime(ToParam(p.appointmentTime).s),
                notes |-> ToParam(p.notes),
                status |-> DefaultStatus,
                rejection_reason |-> SqlNull,
                proposed_changes |-> SqlNull,
                created_at |-> t,
                updated_at |-> t]
    IN  IF service # SqlNull /\ ~IsIntegerText(service)
        THEN \* invalid input syntax for type integer
             [err |-> TRUE, table |-> table, seq |-> seq, rows |-> <<>>]
        ELSE IF \/ row.client_name = SqlNull \/ row.pet_name = SqlNull
                \/ row.appointment_date = SqlNull \/ row.appointment_time = SqlNull
        THEN \* NOT NULL violated
             [err |-> TRUE, table |-> table, seq |-> id, rows |-> <<>>]
        ELSE IF id \in Ids(table)
        THEN \* PRIMARY KEY violated
             [err |-> TRUE, table |-> table, seq |-> id, rows |-> <<>>]
        ELSE IF service # SqlNull /\ ~\E s \in services : s.id = IntegerOf(service)
        THEN \* REFERENCES services(id) violated
             [err |-> TRUE, table |-> table, seq |-> id, rows |-> <<>>]
        ELSE [err |-> FALSE, table |-> Append(table, row), seq |-> id, rows |-> <<row>>]

\* A mutant of UpdatedRow: a reason that is not supplied keeps the stored one
\* (COALESCE($2, rejection_reason)).
UpdatedRow_KeepsReason(row, status, reason, changes, t) ==
    [row EXCEPT !.status = status,
                !.rejection_reason = IF reason = SqlNull THEN row.rejection_reason
                                     ELSE reason,
                !.proposed_changes = IF changes = SqlNull THEN SqlNull
                                     ELSE SqlJsonb(changes.s),
                !.updated_at = t]

\* A mutant of UpdatedRow: status and the two attachments are written by
\* separate statements, and the attachments of a call without any are left
\* for the next one.
UpdatedRow_StatusFirst(row, status, reason, changes, t) ==
    [row EXCEPT !.status = status,
                !.rejection_reason = IF reason = SqlNull /\ changes = SqlNull
                                     THEN row.rejection_reason ELSE reason,
                !.proposed_changes = IF reason = SqlNull /\ changes = SqlNull
                                     THEN row.proposed_changes
                                     ELSE IF changes = SqlNull THEN SqlNull
                                     ELSE SqlJsonb(changes.s),
                !.updated_at = t]

\* A mutant of UpdatedRow: a proposed change is applied to the stored time.
UpdatedRow_AppliesProposal(row, status, reason, changes, t) ==
    [row EXCEPT !.status = status,
                !.rejection_reason = reason,
                !.proposed_changes = IF changes = SqlNull THEN SqlNull
                                     ELSE SqlJsonb(changes.s),
                !.appointment_time = IF changes = SqlNull \/ changes.s = "null"
                                     THEN row.appointment_time
                                     ELSE SqlTime(JSONparse(changes.s).o.appointmentTime.s),
                !.updated_at = t]

\* The new value of a row matched by the UPDATE.
UpdatedRow(row, status, reason, changes, t) ==
    [row EXCEPT !.status = status,
                !.rejection_reason = reason,
                !.proposed_changes = IF changes = SqlNull THEN SqlNull
                                     ELSE SqlJsonb(changes.s),
                !.updated_at = t]

\* A mutant of UpdateAppointment: a missing row is created (an upsert).
UpdateAppointment_Upserts(table, status, reason, changes, id, t) ==
    LET matched == IF IsIntegerText(id)
                   THEN { i \in 1..Len(table) : table[i].id = IntegerOf(id) }
                   ELSE {}
        new == [i \in 1..Len(table) |->
                   IF i \in matched
                   THEN UpdatedRow(table[i], status, reason, changes, t)
                   ELSE table[i]]
        blank == [id |-> IntegerOf(id), client_name |-> SqlNull, client_phone |-> SqlNull,
                  client_email |-> SqlNull, pet_name |-> SqlNull, pet_breed |-> SqlNull,
                  service_id |-> SqlNull, appointment_date |-> SqlNull,
                  appointment_time |-> SqlNull, notes |-> SqlNull, status |-> status,
                  rejection_reason |-> reason, proposed_changes |-> SqlNull,
                  created_at |-> t, updated_at |-> t]
    IN  IF ~IsIntegerText(id) \/ ~FitsVarchar(status, StatusMaxLen)
        THEN [err |-> TRUE, table |-> table, rows |-> <<>>]
        ELSE IF matched = {}
        THEN [err |-> FALSE, table |-> Append(table, blank), rows |-> <<>>]
        ELSE [err |-> FALSE, table |-> new, rows |-> <<new[CHOOSE i \in matched : TRUE]>>]

\* UPDATE appointments SET status = $1, rejection_reason = $2,
\* proposed_changes = $3, updated_at = CURRENT_TIMESTAMP WHERE id = $4 RETURNING *
\* $4 is converted to INTEGER and $1 is coerced to VARCHAR(50): a value either
\* conversion refuses is an error of the statement, which then changes nothing.
UpdateAppointment(table, status, reason, changes, id, t) ==
    LET failed == [err |-> TRUE, table |-> table, rows |-> <<>>]
        matched == IF IsIntegerText(id)
                   THEN { i \in 1..Len(table) : table[i].id = IntegerOf(id) }
                   ELSE {}
        new == [i \in 1..Len(table) |->
                   IF i \in matched
                   THEN UpdatedRow(table[i], status, reason, changes, t)
                   ELSE table[i]]
        done == [err |-> FALSE, table |-> new,
                 rows |-> IF matched = {} THEN <<>>
                          ELSE <<new[CHOOSE i \in matched : TRUE]>>]
    IN  IF ~IsIntegerText(id) \/ ~FitsVarchar(status, StatusMaxLen) THEN failed
        ELSE done

\* s.name, s.duration, s.price of the LEFT JOIN.
JoinService(row) ==
    LET hit == { s \in services : row.service_id = SqlInt(s.id) }
    IN  IF hit = {}
        THEN [service_name |-> JsNull, duration |-> JsNull, price |-> JsNull]
        ELSE LET s == CHOOSE x \in hit : TRUE
             IN  [service_name |-> JsString(s.name), duration |-> JsNumber(s.duration),
                  price |-> JsNumber(s.price)]

\* SELECT a.*, ... FROM appointments a LEFT JOIN services s ... ORDER BY
\* a.created_at DESC: every order of the rows that the ORDER BY allows.
SelectAppointments(table) ==
    LET n == Len(table)
        orders == { f \in [1..n -> 1..n] :
                      /\ \A i, j \in 1..n : i # j => f[i] # f[j]
                      /\ \A i, j \in 1..n :
                            i < j => table[f[i]].created_at >= table[f[j]].created_at }
    IN  { [i \in 1..n |-> [row |-> RowToJs(table[f[i]]), service |-> JoinService(table[f[i]])]]
          : f \in orders }

---------------------------------------------------------------------------
(* POST /api/appointments *)

RequiredFields == { "clientName", "petName", "serviceId", "appointmentDate",
                    "appointmentTime" }

\* A well-formed body: the required fields, some of the optional ones, and
\* fields the handler does not read (status, id).
BookingBody ==
    [clientName |-> JsString("Mario Rossi"), clientPhone |-> JsString("3331234567"),
     clientEmail |-> Undefined, petName |-> JsString("Fido"),
     petBreed |-> JsNull, serviceId |-> JsNumber(1),
     appointmentDate |-> JsString("2024-06-01"), appointmentTime |-> JsString("10:00"),
     notes |-> JsString("pelo lungo"), status |-> JsString("confirmed"),
     id |-> JsNumber(1)]

CreateBodies ==
    { BookingBody,
      [BookingBody EXCEPT !.serviceId = JsNumber(9)],
      [BookingBody EXCEPT !.serviceId = JsNumber(0)] }
    \cup { [BookingBody EXCEPT ![f] = v] : f \in RequiredFields,
                                          v \in {Undefined, JsString("")} }

\* A mutant of MissingRequired: the check forgets appointmentTime.
MissingRequired_ForgetsTime(body) ==
    \/ ~Truthy(body.clientName) \/ ~Truthy(body.petName) \/ ~Truthy(body.serviceId)
    \/ ~Truthy(body.appointmentDate)

\* !clientName || !petName || !serviceId || !appointmentDate || !appointmentTime
MissingRequired(body) ==
    \/ ~Truthy(body.clientName) \/ ~Truthy(body.petName) \/ ~Truthy(body.serviceId)
    \/ ~Truthy(body.appointmentDate) \/ ~Truthy(body.appointmentTime)

\* The handler up to its await: destructuring, the required-field check, then
\* the INSERT is submitted with the nine destructured values.
CreateArrive(body) ==
    /\ Idle
    /\ IF MissingRequired(body)
       THEN /\ response' = Respond("create", 400, [error |-> "Campi obbligatori mancanti"])
            /\ UNCHANGED <<inflight, admitted>>
       ELSE /\ Submit([op |-> "create",
                       params |-> [clientName |-> body.clientName,
                                   clientPhone |-> body.clientPhone,
                                   clientEmail |-> body.clientEmail,
                                   petName |-> body.petName,
                                   petBreed |-> body.petBreed,
                                   serviceId |-> body.serviceId,
                                   appointmentDate |-> body.appointmentDate,
                                   appointmentTime |-> body.appointmentTime,
                                   notes |-> body.notes]])
            /\ response' = NoResponse
    /\ UNCHANGED <<now, issued, appointments, appointments_id_seq, lastUpdate>>

NoUpdate == [op |-> "none"]

\* The INSERT runs; the continuation answers with result.rows[0], or the
\* catch block answers 500.
CreateQuery(req) ==
    /\ Idle
    /\ req \in Pending /\ req.op = "create"
    /\ Complete(req)
    /\ LET out == InsertAppointment(appointments, appointments_id_seq, req.params, now)
       IN  /\ appointments' = out.table
           /\ appointments_id_seq' = out.seq
           /\ lastUpdate' = IF out.err THEN lastUpdate
                            ELSE lastUpdate @@ (out.rows[1].id :> NoUpdate)
           /\ response' =
                IF out.err
                THEN Respond("create", 500, [error |-> "Errore creazione appuntamento"])
                ELSE Respond("create", 200,
                             [message |-> "Appuntamento creato con successo",
                              appointment |-> RowToJs(out.rows[1])])
    /\ UNCHANGED <<now, issued, admitted>>

---------------------------------------------------------------------------
(* GET /api/appointments *)

ListArrive(header) ==
    /\ Idle
    /\ LET auth == authenticateToken(header, now)
           req == [op |-> "list", user |-> auth.user]
       IN  IF ~auth.next
           THEN /\ response' = Respond("list", auth.code, auth.body)
                /\ UNCHANGED <<inflight, admitted>>
           ELSE /\ Submit(req)
                /\ response' = NoResponse
    /\ UNCHANGED <<now, issued, appointments, appointments_id_seq, lastUpdate>>

ListQuery(req) ==
    /\ Idle
    /\ req \in Pending /\ req.op = "list"
    /\ Complete(req)
    /\ \E rows \in SelectAppointments(appointments) :
          response' = Respond("list", 200, JsArray(rows))
    /\ UNCHANGED <<now, issued, appointments, appointments_id_seq, lastUpdate, admitted>>

---------------------------------------------------------------------------
(* PUT /api/appointments/:id/status *)

\* A status longer than 50 characters.
LongStatus == JsString("in attesa di conferma telefonica da parte del cliente")

Rejected ==
    [status |-> JsString("rejected"), rejectionReason |-> JsString("Agenda piena"),
     proposedChanges |-> JsNull]
Modified ==
    [status |-> JsString("modified"), rejectionReason |-> Undefined,
     proposedChanges |-> ProposedChange]
EmptyBody ==
    [status |-> Undefined, rejectionReason |-> Undefined, proposedChanges |-> Undefined]
TooLong ==
    [status |-> LongStatus, rejectionReason |-> Undefined, proposedChanges |-> Undefined]

\* The :id route parameter and the body of the calls explored.
UpdateCalls ==
    { [id |-> "1", body |-> b] : b \in {Rejected, Modified, EmptyBody, TooLong} }
    \cup { [id |-> "2", body |-> Modified], [id |-> "9", body |-> Rejected],
           [id |-> "abc", body |-> Rejected] }

\* Every call is tried with the tokens issued; the calls on ids "1" and "9"
\* that carry a reason are also tried with the headers the gate refuses.
HeadersFor(call) ==
    IF call.body = Rejected /\ call.id \in {"1", "9"} THEN Headers
    ELSE { Bearer(<<tok>>) : tok \in issued }

UpdateArrive(header, id, body) ==
    /\ Idle
    /\ LET auth == authenticateToken(header, now)
           req == [op |-> "update", user |-> auth.user, id |-> id, body |-> body]
       IN  IF ~auth.next
           THEN /\ response' = Respond("update", auth.code, auth.body)
                /\ UNCHANGED <<inflight, admitted>>
           ELSE /\ Submit(req)
                /\ response' = NoResponse
    /\ UNCHANGED <<now, issued, appointments, appointments_id_seq, lastUpdate>>

\* The UPDATE runs; the continuation answers 404 when it returned no row,
\* result.rows[0] otherwise, and the catch block answers 500.
UpdateQuery(req) ==
    /\ Idle
    /\ req \in Pending /\ req.op = "update"
    /\ Complete(req)
    /\ LET out == UpdateAppointment(appointments, ToParam(req.body.status),
                                     ToParam(req.body.rejectionReason),
                                     ToParam(JSONstringify(req.body.proposedChanges)),
                                     ToParam(JsString(req.id)), now)
       IN  /\ appointments' = out.table
           /\ lastUpdate' = IF out.err \/ Len(out.rows) = 0 THEN lastUpdate
                            ELSE [lastUpdate EXCEPT ![out.rows[1].id] = req.body]
           /\ response' =
                 IF out.err
                 THEN Respond("update", 500, [error |-> "Errore aggiornamento appuntamento"])
                 ELSE IF Len(out.rows) = 0
                 THEN Respond("update", 404, [error |-> "Appuntamento non trovato"])
                 ELSE Respond("update", 200, RowToJs(out.rows[1]))
    /\ UNCHANGED <<now, issued, appointments_id_seq, admitted>>

---------------------------------------------------------------------------
Next ==
    \/ Flush
    \/ Tick
    \/ \E call \in LoginCalls : Login(call.email, call.password)
    \/ \E body \in CreateBodies : CreateArrive(body)
    \/ \E req \in Pending : CreateQuery(req)
    \/ \E header \in Headers : ListArrive(header)
    \/ \E req \in Pending : ListQuery(req)
    \/ \E call \in UpdateCalls : \E header \in HeadersFor(call) :
          UpdateArrive(header, call.id, call.body)
    \/ \E req \in Pending : UpdateQuery(req)

Spec == Init /\ [][Next]_vars

---------------------------------------------------------------------------
(* Vocabulary of the properties *)

\* status, rejection_reason and proposed_changes of a returned record.
TripleOf(record) ==
    [status |-> record.status, rejection_reason |-> record.rejection_reason,
     proposed_changes |-> record.proposed_changes]

\* The triple of a freshly created appointment.
CreationTriple ==
    [status |-> JsString("pending"), rejection_reason |-> JsNull,
     proposed_changes |-> JsNull]

\* The triple a call supplies: a value that is not supplied counts as null.
OrNull(v) == IF v = Undefined THEN JsNull ELSE v
SuppliedTriple(body) ==
    [status |-> OrNull(body.status), rejection_reason |-> OrNull(body.rejectionReason),
     proposed_changes |-> OrNull(body.proposedChanges)]

\* A field is absent or empty.
AbsentOrEmpty(v) == v = Undefined \/ v = JsString("")

\* The :id of a call names a stored appointment.
IsIdText(id) == \E n \in 0..9 : DecimalText[n] = id
IdOf(id) == CHOOSE n \in 0..9 : DecimalText[n] = id
ExistingId(id) == IsIdText(id) /\ IdOf(id) \in Ids(appointments)

\* The status of a call fits the status column.
FitsStatus(body) == body.status.t # "string" \/ Len(body.status.s) <= StatusMaxLen

\* The error responses carry an error message and nothing else.
IsErrorBody(body) == DOMAIN body = {"error"}

\* The fields of an appointment that no status update may touch.
FrameOf(row) ==
    [id |-> row.id, client_name |-> row.client_name, client_phone |-> row.client_phone,
     client_email |-> row.client_email, pet_name |-> row.pet_name,
     pet_breed |-> row.pet_breed, service_id |-> row.service_id,
     appointment_date |-> row.appointment_date,
     appointment_time |-> row.appointment_time, notes |-> row.notes,
     created_at |-> row.created_at]

\* What the token of a header is, told from the token alone.
TokenCase(header, t) ==
    LET token == ExtractToken(header)
    IN  IF token \in {NoToken, EmptyToken} THEN "missing"
        ELSE IF token = GarbageToken THEN "malformed"
        ELSE IF token.key # JWT_SECRET THEN "invalid signature"
        ELSE IF t >= token.payload.iat + TokenTTL THEN "expired"
        ELSE "valid"

\* A protected operation arrives with the header.
ProtectedArrive(header) ==
    \/ ListArrive(header)
    \/ \E call \in UpdateCalls : UpdateArrive(header, call.id, call.body)

---------------------------------------------------------------------------
C2_MissingFieldRejected ==
    [][ \A body \in CreateBodies :
          (CreateArrive(body) /\ \E f \in RequiredFields : AbsentOrEmpty(body[f]))
          => /\ response'.op = "create" /\ response'.code = 400
             /\ UNCHANGED <<appointments, appointments_id_seq, inflight>> ]_vars

\* A call was refused with 400 while appointments were stored.
C2_Witness ==
    /\ response.op = "create" /\ response.code = 400
    /\ Len(appointments) >= 1

\* The UPDATE of a call has stored what the call supplied.
TookEffect(req) ==
    LET old == RowOf(appointments, IdOf(req.id))
        new == RowOf(appointments', IdOf(req.id))
    IN  /\ TripleOf(RowToJs(new)) = SuppliedTriple(req.body)
        /\ new.updated_at >= old.updated_at

C4_UnknownIdNotFound ==
    [][ \A req \in Pending :
          (UpdateQuery(req) /\ ~ExistingId(req.id))
          => /\ response'.code = 404
             /\ appointments' = appointments ]_vars

(* C4, amended: an updateStatus call that passed the gate and whose id      *)
(* names no stored appointment changes and creates no appointment; it       *)
(* answers 404 when the id is an integer and the status has at most 50      *)
(* characters, and 500 when the id is not an integer.                       *)
C4_UnknownIdChangesNothing ==
    [][ \A req \in Pending :
          (UpdateQuery(req) /\ ~ExistingId(req.id))
          => /\ appointments' = appointments
             /\ response'.code \in {404, 500}
             /\ (IsIdText(req.id) /\ FitsStatus(req.body)) => response'.code = 404
             /\ ~IsIdText(req.id) => response'.code = 500 ]_vars

\* A call on an unknown id was answered 404 while appointments were stored.
C4_Witness ==
    /\ response.op = "update" /\ response.code = 404
    /\ Len(appointments) >= 1

(* C5: a protected operation that arrives without a token, or with one     *)
(* that verify refuses, is answered 401 or 403 with an error message only;  *)
(* no statement is submitted and no appointment changes, whether or not     *)
(* the id of an updateStatus call exists.                                   *)
C5_GateBeforeStore ==
    [][ \A header \in Headers :
          (/\ ProtectedArrive(header)
           /\ jwtVerify(ExtractToken(header), JWT_SECRET, now).err # "none")
          => /\ response'.code \in {401, 403}
             /\ IsErrorBody(response'.body)
             /\ UNCHANGED <<appointments, appointments_id_seq, inflight, lastUpdate>> ]_vars

\* An updateStatus call was refused while appointment 1 was stored and a
\* token had been issued.
C5_Witness ==
    /\ response.op = "update" /\ response.code \in {401, 403}
    /\ 1 \in Ids(appointments)
    /\ issued # {}

(* C6: a login call with non-empty email and password gets a token exactly  *)
(* when a user with that very email exists and the password matches the     *)
(* stored hash; the token is then accepted by verify and carries the email; *)
(* otherwise the answer is 401 and no token is made.                        *)
C6_LoginIffCredentials ==
    [][ \A call \in LoginCalls :
          (Truthy(call.email) /\ Truthy(call.password) /\ Login(call.email, call.password))
          => IF \E u \in users : /\ u.email = call.email.s
                                 /\ u.password = bcryptHash(call.password.s)
             THEN /\ response'.code = 200
                  /\ response'.body.token \in issued'
                  /\ jwtVerify(response'.body.token, JWT_SECRET, now).err = "none"
                  /\ jwtVerify(response'.body.token, JWT_SECRET, now).user.email
                       = call.email.s
             ELSE /\ response'.code = 401
                  /\ IsErrorBody(response'.body)
                  /\ issued' = issued ]_vars

\* A login has just succeeded.
C6_Witness == response.op = "login" /\ response.code = 200

(* C7: an issued token passes the gate at every time before 24 hours (the   *)
(* validity window) have gone by since it was issued, whatever happened in  *)
(* between, and is refused from then on.                                    *)
C7_ValidForWindow ==
    \A tok \in issued :
        authenticateToken(Bearer(<<tok>>), now).next <=> now < tok.payload.iat + TokenTTL

\* A token has outlived its window while requests were served.
C7_Witness ==
    /\ \E tok \in issued : now >= tok.payload.iat + TokenTTL
    /\ Len(appointments) >= 1

(* C8, as claimed: the gate answers 403 when the token is missing, when it  *)
(* is malformed, when it is expired and when its signature is invalid.      *)
C8_AlwaysForbidden ==
    [][ \A header \in Headers :
          (ProtectedArrive(header) /\ TokenCase(header, now) # "valid")
          => response'.code = 403 ]_vars

(* C8, amended: the gate answers 403 when the token is malformed, expired   *)
(* or has an invalid signature, and 401 when the token is missing.          *)
C8_ForbiddenOrUnauthorized ==
    [][ \A header \in Headers :
          ProtectedArrive(header)
          => /\ TokenCase(header, now) = "missing" => response'.code = 401
             /\ TokenCase(header, now) \in {"malformed", "expired", "invalid signature"}
                  => response'.code = 403 ]_vars

\* A listAppointments call with an expired token was answered 403.
C8_Witness ==
    /\ response.op = "list" /\ response.code = 403
    /\ \E tok \in issued : now >= tok.payload.exp

(* C9: under every interleaving of updateStatus calls, the status, reason   *)
(* and changes of an appointment are those of its creation or those of one  *)
(* single call, and the record a call returns holds what that call          *)
(* supplied.                                                                *)
C9_AtomicUpdate ==
    /\ \A i \in 1..Len(appointments) :
          LET row == appointments[i]
          IN  TripleOf(RowToJs(row)) =
                 IF lastUpdate[row.id] = NoUpdate THEN CreationTriple
                 ELSE SuppliedTriple(lastUpdate[row.id])
    /\ (response.op = "update" /\ response.code = 200)
          => TripleOf(response.body) = SuppliedTriple(lastUpdate[response.body.id.n])

\* An update has just run while another update of the same appointment,
\* with other values, was in flight.
C9_Witness ==
    /\ response.op = "update" /\ response.code = 200
    /\ \E req \in Pending :
          /\ req.op = "update"
          /\ ExistingId(req.id) /\ IdOf(req.id) = response.body.id.n
          /\ FitsStatus(req.body)
          /\ SuppliedTriple(req.body) # TripleOf(response.body)

\* The step is the UPDATE of a call that passed the gate with an issued
\* token, answered 200, on the appointment with this id.
AuthenticatedUpdateOf(id) ==
    \E req \in Pending :
        /\ UpdateQuery(req)
        /\ ExistingId(req.id) /\ IdOf(req.id) = id
        /\ \E tok \in issued : tok.payload = req.user
        /\ response'.code = 200

(* C10: no appointment is ever deleted; an appointment changes only by an   *)
(* updateStatus call on its own id that passed the gate, and then only in   *)
(* status, rejection_reason, proposed_changes and updated_at; so an         *)
(* appointment that is not pending has been the target of such a call.      *)
C10_OnlyStatusChanges ==
    /\ [][ /\ Len(appointments') >= Len(appointments)
           /\ \A i \in 1..Len(appointments) :
                 /\ FrameOf(appointments'[i]) = FrameOf(appointments[i])
                 /\ appointments'[i] # appointments[i]
                       => AuthenticatedUpdateOf(appointments[i].id) ]_vars
    /\ [](\A i \in 1..Len(appointments) :
             appointments[i].status # SqlText("pending")
                => lastUpdate[appointments[i].id] # NoUpdate)

\* An appointment has just been updated while another one was stored.
C10_Witness ==
    /\ response.op = "update" /\ response.code = 200
    /\ Len(appointments) >= 2

====
